---- MODULE Spec2Model ----
(***************************************************************************)
(* Model of crates/core/src/rule.rs: the Matcher trait with its two        *)
(* searches (find_node, find_node_vec), the combinators And, Or, Not,      *)
(* Inside, NotInside, the PositiveMatcher marker trait and the type-state  *)
(* rule builder (Rule, AndRule, EitherRule).                               *)
(*                                                                         *)
(* A matcher value is a record tagged by op:                               *)
(*   [op |-> "pattern", kind, var, sub]     a leaf Pattern                 *)
(*   [op |-> "and", pattern1, pattern2]     struct And                     *)
(*   [op |-> "or",  pattern1, pattern2]     struct Or                      *)
(*   [op |-> "not", not]                    struct Not                     *)
(*   [op |-> "inside", outer]               struct Inside                  *)
(*   [op |-> "notinside", outer]            struct NotInside               *)
(* A node is a number of 1..NumNodes, 0 stands for Option::None.           *)
(***************************************************************************)
EXTENDS Integers, Sequences, FiniteSets

VARIABLES tree, acc, arg, call, found, pc, start, queue, ret, tested, prev

vars == <<tree, acc, arg, call, found, pc, start, queue, ret, tested, prev>>

(***************************************************************************)
(* Bounds.                                                                 *)
(***************************************************************************)
NumNodes == 4
MaxSize == 5
MaxSearched == 3

(***************************************************************************)
(* The syntax tree (crate::Node).  A tree is its parent function; the      *)
(* children of a node are listed in source order, which is the order of    *)
(* the node numbers.  Kind and text of a node are fixed by its number.     *)
(***************************************************************************)
Nodes == 1..NumNodes

\* The trees of k nodes: node 1 is the root, the parent of a later node is
\* the node before it or the node of half its number.
RECURSIVE TreesOf(_)
TreesOf(k) ==
  IF k = 1 THEN {<<0>>}
  ELSE {Append(t, p) : t \in TreesOf(k - 1), p \in {k - 1, k \div 2}}

Trees == TreesOf(NumNodes)

Chain == [i \in Nodes |-> i - 1]

Kinds == {"let", "const"}

KindOf(n) == IF ((n - 1) \div 2) % 2 = 0 THEN "let" ELSE "const"

TextOf(n) == 1 + ((n \div 2) % 2)

Texts == {1, 2}

parent(t, n) == t[n]

RECURSIVE ChildrenFrom(_, _, _)
ChildrenFrom(t, n, i) ==
  IF i > NumNodes THEN <<>>
  ELSE IF t[i] = n THEN <<i>> \o ChildrenFrom(t, n, i + 1)
  ELSE ChildrenFrom(t, n, i + 1)

children(t, n) == ChildrenFrom(t, n, 1)

(***************************************************************************)
(* The binding environment (crate::meta_var::MetaVarEnv): placeholder name *)
(* to captured text, 0 for a placeholder that is not bound.                *)
(***************************************************************************)
Vars == {"A"}

Envs == [Vars -> {0} \cup Texts]

MetaVarEnvNew == [v \in Vars |-> 0]

(***************************************************************************)
(* Matcher values.                                                         *)
(***************************************************************************)
\* A pattern: the kind its template has, the placeholder it holds ("none"
\* for a template without one) and what the placeholder stands for: the
\* node itself (sub = 0) or the node's first child (sub = 1).
Pattern(k, v, s) == [op |-> "pattern", kind |-> k, var |-> v, sub |-> s]

Patterns == {Pattern("let", "none", 0), Pattern("const", "A", 0), Pattern("let", "A", 1)}

And(p1, p2) == [op |-> "and", pattern1 |-> p1, pattern2 |-> p2]

Or(p1, p2) == [op |-> "or", pattern1 |-> p1, pattern2 |-> p2]

Not(p) == [op |-> "not", not |-> p]

Inside(p) == [op |-> "inside", outer |-> p]

NotInside(p) == [op |-> "notinside", outer |-> p]

NoMatcher == [op |-> "none"]

RECURSIVE Size(_)
Size(m) ==
  CASE m.op = "pattern" -> 1
    [] m.op \in {"and", "or"} -> 1 + Size(m.pattern1) + Size(m.pattern2)
    [] m.op = "not" -> 1 + Size(m.not)
    [] m.op \in {"inside", "notinside"} -> 1 + Size(m.outer)
    [] OTHER -> 0

(***************************************************************************)
(* The marker trait PositiveMatcher: which matcher types implement it.     *)
(***************************************************************************)
RECURSIVE PositiveMatcher(_)
PositiveMatcher(m) ==
  CASE m.op = "pattern" -> TRUE
    [] m.op = "and" -> PositiveMatcher(m.pattern1)
    [] m.op = "or" -> PositiveMatcher(m.pattern1) /\ PositiveMatcher(m.pattern2)
    [] OTHER -> FALSE

(***************************************************************************)
(* match_node.  An outcome is [node, env, log]: the returned node (0 for   *)
(* None), the environment as the call leaves it, and the match_node calls  *)
(* made, in order, each as [m, node].                                      *)
(***************************************************************************)
RECURSIVE match_node(_, _, _, _)

Outcome(n, e, l) == [node |-> n, env |-> e, log |-> l]

Entry(m, n) == [m |-> m, node |-> n]

\* Pattern::match_node: the node must have the template's kind; a
\* placeholder is bound to the text of what it stands for on its first
\* use, and has to agree with the text it is bound to afterwards.  The
\* capture is written while the node is compared, so a failed attempt can
\* leave it behind.
PatternMatchNode(t, m, node, env) ==
  LET subs == children(t, node)
      target == IF m.sub = 0 THEN node ELSE IF subs = <<>> THEN 0 ELSE subs[1]
      bound == IF m.var = "none" \/ target = 0 \/ env[m.var] # 0 THEN env
               ELSE [env EXCEPT ![m.var] = TextOf(target)]
      ok == /\ KindOf(node) = m.kind
            /\ (m.var = "none" \/ (target # 0 /\ bound[m.var] = TextOf(target)))
  IN Outcome(IF ok THEN node ELSE 0, bound, <<Entry(m, node)>>)

\* And::match_node handing pattern2 the environment it was entered with
\* instead of the one pattern1 left.
AndMatchNodeOldEnv(t, m, node, env) ==
  LET r1 == match_node(t, m.pattern1, node, env)
  IN IF r1.node = 0
     THEN Outcome(0, r1.env, <<Entry(m, node)>> \o r1.log)
     ELSE LET r2 == match_node(t, m.pattern2, r1.node, env)
          IN Outcome(r2.node, r2.env, <<Entry(m, node)>> \o r1.log \o r2.log)

AndMatchNode(t, m, node, env) ==
  LET r1 == match_node(t, m.pattern1, node, env)
  IN IF r1.node = 0
     THEN Outcome(0, r1.env, <<Entry(m, node)>> \o r1.log)
     ELSE LET r2 == match_node(t, m.pattern2, r1.node, r1.env)
          IN Outcome(r2.node, r2.env, <<Entry(m, node)>> \o r1.log \o r2.log)

\* Or::match_node trying pattern2 before pattern1.
OrMatchNodeSwapped(t, m, node, env) ==
  LET r2 == match_node(t, m.pattern2, node, env)
  IN IF r2.node # 0
     THEN Outcome(r2.node, r2.env, <<Entry(m, node)>> \o r2.log)
     ELSE LET r1 == match_node(t, m.pattern1, node, r2.env)
          IN Outcome(r1.node, r1.env, <<Entry(m, node)>> \o r2.log \o r1.log)

OrMatchNode(t, m, node, env) ==
  LET r1 == match_node(t, m.pattern1, node, env)
  IN IF r1.node # 0
     THEN Outcome(r1.node, r1.env, <<Entry(m, node)>> \o r1.log)
     ELSE LET r2 == match_node(t, m.pattern2, node, r1.env)
          IN Outcome(r2.node, r2.env, <<Entry(m, node)>> \o r1.log \o r2.log)

\* The loop of Inside::match_node returning the ancestor that matched
\* instead of the candidate.
RECURSIVE InsideLoopReturnsAncestor(_, _, _, _, _)
InsideLoopReturnsAncestor(t, m, node, n, env) ==
  LET p == parent(t, n)
  IN IF p = 0 THEN Outcome(0, env, <<>>)
     ELSE LET r == match_node(t, m.outer, p, env)
          IN IF r.node # 0 THEN Outcome(r.node, r.env, r.log)
             ELSE LET rest == InsideLoopReturnsAncestor(t, m, node, p, r.env)
                  IN Outcome(rest.node, rest.env, r.log \o rest.log)

\* The loop of Inside::match_node, entered with n the node whose parent is
\* looked at next.
RECURSIVE InsideLoop(_, _, _, _, _)
InsideLoop(t, m, node, n, env) ==
  LET p == parent(t, n)
  IN IF p = 0 THEN Outcome(0, env, <<>>)
     ELSE LET r == match_node(t, m.outer, p, env)
          IN IF r.node # 0 THEN Outcome(node, r.env, r.log)
             ELSE LET rest == InsideLoop(t, m, node, p, r.env)
                  IN Outcome(rest.node, rest.env, r.log \o rest.log)

InsideMatchNode(t, m, node, env) ==
  LET r == InsideLoop(t, m, node, node, env)
  IN Outcome(r.node, r.env, <<Entry(m, node)>> \o r.log)

\* The loop of NotInside::match_node starting its tests at the candidate
\* itself.
RECURSIVE NotInsideLoopFromSelf(_, _, _, _, _)
NotInsideLoopFromSelf(t, m, node, n, env) ==
  LET r == match_node(t, m.outer, n, env)
  IN IF r.node # 0 THEN Outcome(0, r.env, r.log)
     ELSE IF parent(t, n) = 0 THEN Outcome(node, r.env, r.log)
     ELSE LET rest == NotInsideLoopFromSelf(t, m, node, parent(t, n), r.env)
          IN Outcome(rest.node, rest.env, r.log \o rest.log)

\* NotInside::match_node looking at the parent only.
NotInsideLoopParentOnly(t, m, node, n, env) ==
  LET p == parent(t, n)
  IN IF p = 0 THEN Outcome(node, env, <<>>)
     ELSE LET r == match_node(t, m.outer, p, env)
          IN Outcome(IF r.node # 0 THEN 0 ELSE node, r.env, r.log)

RECURSIVE NotInsideLoop(_, _, _, _, _)
NotInsideLoop(t, m, node, n, env) ==
  LET p == parent(t, n)
  IN IF p = 0 THEN Outcome(node, env, <<>>)
     ELSE LET r == match_node(t, m.outer, p, env)
          IN IF r.node # 0 THEN Outcome(0, r.env, r.log)
             ELSE LET rest == NotInsideLoop(t, m, node, p, r.env)
                  IN Outcome(rest.node, rest.env, r.log \o rest.log)

NotInsideMatchNode(t, m, node, env) ==
  LET r == NotInsideLoop(t, m, node, node, env)
  IN Outcome(r.node, r.env, <<Entry(m, node)>> \o r.log)

\* Not::match_node testing is_some for is_none.
NotMatchNodeIsSome(t, m, node, env) ==
  LET r == match_node(t, m.not, node, env)
  IN Outcome(IF r.node # 0 THEN node ELSE 0, r.env, <<Entry(m, node)>> \o r.log)

NotMatchNode(t, m, node, env) ==
  LET r == match_node(t, m.not, node, env)
  IN Outcome(IF r.node = 0 THEN node ELSE 0, r.env, <<Entry(m, node)>> \o r.log)

match_node(t, m, node, env) ==
  CASE m.op = "pattern" -> PatternMatchNode(t, m, node, env)
    [] m.op = "and" -> AndMatchNode(t, m, node, env)
    [] m.op = "or" -> OrMatchNode(t, m, node, env)
    [] m.op = "inside" -> InsideMatchNode(t, m, node, env)
    [] m.op = "notinside" -> NotInsideMatchNode(t, m, node, env)
    [] m.op = "not" -> NotMatchNode(t, m, node, env)

(***************************************************************************)
(* find_node: the node itself, then the children in source order, the      *)
(* first success wins; one environment for the whole search.  The log      *)
(* holds the match_node calls of the search, in order, each with the       *)
(* environment it was entered with and the one it left.                    *)
(***************************************************************************)
RECURSIVE find_node(_, _, _, _)

Test(n, e, r) == [node |-> n, env |-> e, res |-> r.node, after |-> r.env]

\* find_map going through the children from the last to the first.
RECURSIVE FindMapReversed(_, _, _, _, _)
FindMapReversed(t, m, subs, i, env) ==
  IF i > Len(subs) THEN Outcome(0, env, <<>>)
  ELSE LET r == find_node(t, m, subs[Len(subs) + 1 - i], env)
       IN IF r.node # 0 THEN r
          ELSE LET rest == FindMapReversed(t, m, subs, i + 1, r.env)
               IN Outcome(rest.node, rest.env, r.log \o rest.log)

\* node.children().find_map(|sub| self.find_node(sub, env)), from the i-th
\* child on.
RECURSIVE FindMap(_, _, _, _, _)
FindMap(t, m, subs, i, env) ==
  IF i > Len(subs) THEN Outcome(0, env, <<>>)
  ELSE LET r == find_node(t, m, subs[i], env)
       IN IF r.node # 0 THEN r
          ELSE LET rest == FindMap(t, m, subs, i + 1, r.env)
               IN Outcome(rest.node, rest.env, r.log \o rest.log)

\* find_node putting the environment back to what it was on entry before
\* it goes on to the children of a node that failed.
find_node_restoring(t, m, node, env) ==
  LET r == match_node(t, m, node, env)
  IN IF r.node # 0 THEN Outcome(r.node, r.env, <<Test(node, env, r)>>)
     ELSE LET sub == FindMap(t, m, children(t, node), 1, env)
          IN Outcome(sub.node, sub.env, <<Test(node, env, r)>> \o sub.log)

\* find_node searching the children before it tests the node.
find_node_children_first(t, m, node, env) ==
  LET sub == FindMap(t, m, children(t, node), 1, env)
  IN IF sub.node # 0 THEN sub
     ELSE LET r == match_node(t, m, node, sub.env)
          IN Outcome(r.node, r.env, sub.log \o <<Test(node, sub.env, r)>>)

find_node(t, m, node, env) ==
  LET r == match_node(t, m, node, env)
  IN IF r.node # 0 THEN Outcome(r.node, r.env, <<Test(node, env, r)>>)
     ELSE LET sub == FindMap(t, m, children(t, node), 1, r.env)
          IN Outcome(sub.node, sub.env, <<Test(node, env, r)>> \o sub.log)

(***************************************************************************)
(* State.                                                                  *)
(*   acc    the builder value in flight: ty is its type (AndRule,          *)
(*          EitherRule, Rule), inner its field, terms the arguments it     *)
(*          was made from, in order                                        *)
(*   arg    the matcher value last returned by Rule::not or Rule::build    *)
(*   tree   the tree the outstanding call works on                         *)
(*   call   the last match_node call and its outcome                       *)
(*   found  the last find_node call and its outcome                        *)
(*   pc, start, queue, ret, tested   find_node_vec: position, start node,  *)
(*          the VecDeque, the result vector, the candidates dequeued       *)
(*   prev   what the find_node_vec call before this one returned, when the *)
(*          caller makes the same call a second time                       *)
(***************************************************************************)
NoAcc == [ty |-> "none", inner |-> NoMatcher, terms |-> <<>>]

NoArg == [from |-> "none", m |-> NoMatcher, terms |-> <<>>]

NoRun == [done |-> FALSE, ret |-> <<>>]

NoCall == [m |-> NoMatcher, node |-> 0, env |-> MetaVarEnvNew,
           out |-> Outcome(0, MetaVarEnvNew, <<>>)]

\* The matchers an operation can be handed: a pattern, an Inside or a
\* NotInside of a pattern, or the value held in arg.
Base == Patterns \cup {Inside(p) : p \in Patterns} \cup {NotInside(p) : p \in Patterns}

Pool == Base \cup (IF arg.from = "none" THEN {} ELSE {arg.m})

\* Passing a value by move: arg is gone once it was handed over.
Moved(p) == IF arg.from # "none" /\ p = arg.m THEN NoArg ELSE arg

Init ==
  /\ tree = Chain
  /\ acc = NoAcc
  /\ arg = NoArg
  /\ call = NoCall
  /\ found = NoCall
  /\ pc = "idle"
  /\ start = 0
  /\ queue = <<>>
  /\ ret = <<>>
  /\ tested = <<>>
  /\ prev = NoRun

search == <<tree, call, found, pc, start, queue, ret, tested, prev>>

\* The bound of the model: the matcher values alive, the one the builder
\* holds and the one in arg, have MaxSize parts at most between them.
Fits(b, a) == Size(b.inner) + Size(a.m) <= MaxSize

(***************************************************************************)
(* The builder.  A trait bound of the source is a guard: a call that does  *)
(* not type-check cannot be made.  The argument of a call is any matcher   *)
(* of Pool.                                                                *)
(***************************************************************************)
\* Rule::all without the PositiveMatcher bound.
RuleAllAnyMatcher ==
  /\ pc = "idle"
  /\ \E pattern \in Pool :
       /\ acc' = [ty |-> "AndRule", inner |-> pattern, terms |-> <<pattern>>]
       /\ arg' = Moved(pattern)
       /\ Fits(acc', arg')
  /\ UNCHANGED search

RuleAll ==
  /\ pc = "idle"
  /\ \E pattern \in Pool :
       /\ PositiveMatcher(pattern)
       /\ acc' = [ty |-> "AndRule", inner |-> pattern, terms |-> <<pattern>>]
       /\ arg' = Moved(pattern)
       /\ Fits(acc', arg')
  /\ UNCHANGED search

RuleEither ==
  /\ pc = "idle"
  /\ \E pattern \in Pool :
       /\ PositiveMatcher(pattern)
       /\ acc' = [ty |-> "EitherRule", inner |-> pattern, terms |-> <<pattern>>]
       /\ arg' = Moved(pattern)
       /\ Fits(acc', arg')
  /\ UNCHANGED search

\* Rule::not without the PositiveMatcher bound.
RuleNotAnyMatcher ==
  /\ pc = "idle"
  /\ \E pattern \in Pool :
       /\ arg' = [from |-> "not", m |-> Not(pattern), terms |-> <<pattern>>]
       /\ Fits(acc, arg')
  /\ UNCHANGED <<acc, search>>

RuleNot ==
  /\ pc = "idle"
  /\ \E pattern \in Pool :
       /\ PositiveMatcher(pattern)
       /\ arg' = [from |-> "not", m |-> Not(pattern), terms |-> <<pattern>>]
       /\ Fits(acc, arg')
  /\ UNCHANGED <<acc, search>>

\* build offered by AndRule and EitherRule as well.
RuleBuildAnyBuilder ==
  /\ pc = "idle"
  /\ acc.ty # "none"
  /\ PositiveMatcher(acc.inner)
  /\ arg' = [from |-> "build", m |-> acc.inner, terms |-> acc.terms]
  /\ acc' = NoAcc
  /\ UNCHANGED search

RuleBuild ==
  /\ pc = "idle"
  /\ acc.ty = "Rule"
  /\ PositiveMatcher(acc.inner)
  /\ arg' = [from |-> "build", m |-> acc.inner, terms |-> acc.terms]
  /\ acc' = NoAcc
  /\ UNCHANGED search

AndRuleAnd ==
  /\ pc = "idle"
  /\ acc.ty = "AndRule"
  /\ PositiveMatcher(acc.inner)
  /\ \E other \in Pool :
       /\ acc' = [ty |-> "Rule", inner |-> And(acc.inner, other),
                  terms |-> Append(acc.terms, other)]
       /\ arg' = Moved(other)
       /\ Fits(acc', arg')
  /\ UNCHANGED search

\* Rule::and putting the new term on the left.
RuleAndOnTheLeft ==
  /\ pc = "idle"
  /\ acc.ty = "Rule"
  /\ acc.inner.op = "and"
  /\ PositiveMatcher(acc.inner.pattern1)
  /\ \E other \in Pool :
       /\ acc' = [ty |-> "Rule", inner |-> And(other, acc.inner),
                  terms |-> Append(acc.terms, other)]
       /\ arg' = Moved(other)
       /\ Fits(acc', arg')
  /\ UNCHANGED search

RuleAnd ==
  /\ pc = "idle"
  /\ acc.ty = "Rule"
  /\ acc.inner.op = "and"
  /\ PositiveMatcher(acc.inner.pattern1)
  /\ \E other \in Pool :
       /\ acc' = [ty |-> "Rule", inner |-> And(acc.inner, other),
                  terms |-> Append(acc.terms, other)]
       /\ arg' = Moved(other)
       /\ Fits(acc', arg')
  /\ UNCHANGED search

EitherRuleOr ==
  /\ pc = "idle"
  /\ acc.ty = "EitherRule"
  /\ PositiveMatcher(acc.inner)
  /\ \E other \in Pool :
       /\ PositiveMatcher(other)
       /\ acc' = [ty |-> "Rule", inner |-> Or(acc.inner, other),
                  terms |-> Append(acc.terms, other)]
       /\ arg' = Moved(other)
       /\ Fits(acc', arg')
  /\ UNCHANGED search

RuleOr ==
  /\ pc = "idle"
  /\ acc.ty = "Rule"
  /\ acc.inner.op = "or"
  /\ PositiveMatcher(acc.inner.pattern1)
  /\ PositiveMatcher(acc.inner.pattern2)
  /\ \E other \in Pool :
       /\ PositiveMatcher(other)
       /\ acc' = [ty |-> "Rule", inner |-> Or(acc.inner, other),
                  terms |-> Append(acc.terms, other)]
       /\ arg' = Moved(other)
       /\ Fits(acc', arg')
  /\ UNCHANGED search

(***************************************************************************)
(* Calls of the Matcher trait, made on the value in arg, or on a base      *)
(* matcher when arg is empty, while no builder is in flight.  The tree,    *)
(* the node and the environment of a call are its inputs.                  *)
(***************************************************************************)
Callable == IF arg.from = "none" THEN Base ELSE {arg.m}

\* The searches are run with matchers of at most MaxSearched nodes.
Searchable == {m \in Callable : Size(m) <= MaxSearched}

CallMatchNode ==
  /\ pc = "idle"
  /\ acc.ty = "none"
  /\ \E m \in Callable, t \in Trees, node \in Nodes, env \in Envs :
       /\ tree' = t
       /\ call' = [m |-> m, node |-> node, env |-> env,
                   out |-> match_node(t, m, node, env)]
  /\ pc' = "matched"
  /\ UNCHANGED <<acc, arg, found, start, queue, ret, tested, prev>>

CallFindNode ==
  /\ pc = "idle"
  /\ acc.ty = "none"
  /\ \E m \in Searchable, t \in Trees, node \in Nodes, env \in Envs :
       /\ tree' = t
       /\ found' = [m |-> m, node |-> node, env |-> env,
                    out |-> find_node(t, m, node, env)]
  /\ pc' = "found"
  /\ UNCHANGED <<acc, arg, call, start, queue, ret, tested, prev>>

\* The head of find_node_vec with a result vector that outlives the call.
FindNodeVecEnterKeepsRet(node) ==
  /\ start' = node
  /\ queue' = <<node>>
  /\ ret' = ret
  /\ tested' = <<>>
  /\ pc' = "loop"

\* find_node_vec up to the loop: ret and queue are made, node is pushed.
FindNodeVecEnter(node) ==
  /\ start' = node
  /\ queue' = <<node>>
  /\ ret' = <<>>
  /\ tested' = <<>>
  /\ pc' = "loop"

FindNodeVecStart ==
  /\ pc = "idle"
  /\ acc.ty = "none"
  /\ \E m \in Searchable, t \in Trees, node \in Nodes :
       /\ tree' = t
       /\ call' = [NoCall EXCEPT !.m = m]
       /\ FindNodeVecEnter(node)
  /\ prev' = NoRun
  /\ UNCHANGED <<acc, arg, found>>

\* The caller makes the call it has just made once more: same receiver,
\* same node of the same tree.
FindNodeVecAgain ==
  /\ pc = "returned"
  /\ ~prev.done
  /\ prev' = [done |-> TRUE, ret |-> ret]
  /\ call' = [NoCall EXCEPT !.m = call.m]
  /\ FindNodeVecEnter(start)
  /\ UNCHANGED <<tree, acc, arg, found>>

\* The loop with the children put at the front of the queue.
FindNodeVecLoopPushFront ==
  /\ pc = "loop"
  /\ queue # <<>>
  /\ LET cand == Head(queue)
         r == match_node(tree, call.m, cand, MetaVarEnvNew)
     IN /\ queue' = children(tree, cand) \o Tail(queue)
        /\ ret' = IF r.node # 0 THEN Append(ret, r.node) ELSE ret
        /\ tested' = Append(tested, cand)
        /\ call' = [m |-> call.m, node |-> cand, env |-> MetaVarEnvNew, out |-> r]
  /\ UNCHANGED <<tree, acc, arg, found, pc, start, prev>>

\* The loop with one environment made before it and handed to every
\* candidate in turn.
FindNodeVecLoopSharedEnv ==
  /\ pc = "loop"
  /\ queue # <<>>
  /\ LET cand == Head(queue)
         env == IF tested = <<>> THEN MetaVarEnvNew ELSE call.out.env
         r == match_node(tree, call.m, cand, env)
     IN /\ queue' = Tail(queue) \o children(tree, cand)
        /\ ret' = IF r.node # 0 THEN Append(ret, r.node) ELSE ret
        /\ tested' = Append(tested, cand)
        /\ call' = [m |-> call.m, node |-> cand, env |-> env, out |-> r]
  /\ UNCHANGED <<tree, acc, arg, found, pc, start, prev>>

\* The loop leaving the search at the first match.
FindNodeVecLoopStopsAtMatch ==
  /\ pc = "loop"
  /\ queue # <<>>
  /\ LET cand == Head(queue)
         r == match_node(tree, call.m, cand, MetaVarEnvNew)
     IN /\ queue' = IF r.node # 0 THEN <<>> ELSE Tail(queue) \o children(tree, cand)
        /\ ret' = IF r.node # 0 THEN Append(ret, r.node) ELSE ret
        /\ tested' = Append(tested, cand)
        /\ call' = [m |-> call.m, node |-> cand, env |-> MetaVarEnvNew, out |-> r]
  /\ UNCHANGED <<tree, acc, arg, found, pc, start, prev>>

\* The loop reading the front of the queue without taking it off.
FindNodeVecLoopNoPop ==
  /\ pc = "loop"
  /\ queue # <<>>
  /\ LET cand == Head(queue)
         r == match_node(tree, call.m, cand, MetaVarEnvNew)
     IN /\ queue' = queue \o children(tree, cand)
        /\ ret' = IF r.node # 0 THEN Append(ret, r.node) ELSE ret
        /\ tested' = Append(tested, cand)
        /\ call' = [m |-> call.m, node |-> cand, env |-> MetaVarEnvNew, out |-> r]
  /\ UNCHANGED <<tree, acc, arg, found, pc, start, prev>>

\* One turn of the while loop: pop the front, queue its children, test it
\* with a new environment, push the node the matcher returned.
FindNodeVecLoop ==
  /\ pc = "loop"
  /\ queue # <<>>
  /\ LET cand == Head(queue)
         r == match_node(tree, call.m, cand, MetaVarEnvNew)
     IN /\ queue' = Tail(queue) \o children(tree, cand)
        /\ ret' = IF r.node # 0 THEN Append(ret, r.node) ELSE ret
        /\ tested' = Append(tested, cand)
        /\ call' = [m |-> call.m, node |-> cand, env |-> MetaVarEnvNew, out |-> r]
  /\ UNCHANGED <<tree, acc, arg, found, pc, start, prev>>

FindNodeVecReturn ==
  /\ pc = "loop"
  /\ queue = <<>>
  /\ pc' = "returned"
  /\ UNCHANGED <<tree, acc, arg, call, found, start, queue, ret, tested, prev>>

\* The results of a call go out of scope.
Drop ==
  /\ pc \in {"matched", "found", "returned"}
  /\ tree' = Chain
  /\ call' = NoCall
  /\ found' = NoCall
  /\ pc' = "idle"
  /\ start' = 0
  /\ queue' = <<>>
  /\ ret' = <<>>
  /\ tested' = <<>>
  /\ prev' = NoRun
  /\ UNCHANGED <<acc, arg>>

Next ==
  \/ RuleAll
  \/ RuleEither
  \/ RuleNot
  \/ RuleBuild
  \/ AndRuleAnd
  \/ RuleAnd
  \/ EitherRuleOr
  \/ RuleOr
  \/ CallMatchNode
  \/ CallFindNode
  \/ FindNodeVecStart
  \/ FindNodeVecAgain
  \/ FindNodeVecLoop
  \/ FindNodeVecReturn
  \/ Drop

Spec == Init /\ [][Next]_vars

(***************************************************************************)
(* Tree orders, stated on the tree alone.                                  *)
(***************************************************************************)
RECURSIVE Depth(_, _)
Depth(t, n) == IF t[n] = 0 THEN 0 ELSE 1 + Depth(t, t[n])

RECURSIVE Flatten(_)
Flatten(ss) == IF ss = <<>> THEN <<>> ELSE Head(ss) \o Flatten(Tail(ss))

\* The nodes below the nodes of level, level by level.
RECURSIVE LevelsFrom(_, _)
LevelsFrom(t, level) ==
  IF level = <<>> THEN <<>>
  ELSE level \o LevelsFrom(t, Flatten([i \in 1..Len(level) |-> children(t, level[i])]))

LevelOrder(t, n) == LevelsFrom(t, <<n>>)

RECURSIVE PreOrder(_, _)
PreOrder(t, n) ==
  <<n>> \o Flatten([i \in 1..Len(children(t, n)) |-> PreOrder(t, children(t, n)[i])])

\* parent, grandparent, ... up to the root
RECURSIVE AncestorChain(_, _)
AncestorChain(t, n) == IF t[n] = 0 THEN <<>> ELSE <<t[n]>> \o AncestorChain(t, t[n])

Matches(t, m, n, e) == match_node(t, m, n, e).node # 0

\* C1: when find_node_vec returns, its result is the level-order
\* enumeration of the start node's subtree restricted to the nodes on which
\* match_node succeeds from a new, empty environment: a subsequence of the
\* level order, shallower nodes before deeper ones, no node twice.
C1_LevelOrderMatches ==
  pc = "returned" =>
    /\ ret = SelectSeq(LevelOrder(tree, start),
                       LAMBDA n : Matches(tree, call.m, n, MetaVarEnvNew))
    /\ \A i, j \in 1..Len(ret) :
         i < j => ret[i] # ret[j] /\ Depth(tree, ret[i]) <= Depth(tree, ret[j])

\* A finished enumeration that reported several nodes and skipped others,
\* on a tree whose level order is not its pre-order.
C1_Witness ==
  /\ pc = "returned"
  /\ Len(ret) >= 2
  /\ Len(ret) < Len(tested)
  /\ LevelOrder(tree, start) # PreOrder(tree, start)

C3_AndMatches ==
  (pc = "matched" /\ call.m.op = "and") =>
    LET r1 == match_node(tree, call.m.pattern1, call.node, call.env)
        r2 == match_node(tree, call.m.pattern2, r1.node, r1.env)
    IN /\ r1.node = 0 =>
            /\ call.out.node = 0
            /\ call.out.log = <<Entry(call.m, call.node)>> \o r1.log
            /\ call.out.env = r1.env
       /\ r1.node # 0 =>
            /\ call.out.node = r2.node
            /\ call.out.env = r2.env
            /\ call.out.log = <<Entry(call.m, call.node)>> \o r1.log \o r2.log

\* A conjunction whose first operand bound a placeholder and whose second
\* operand failed on that binding, though it matches from the environment
\* the conjunction was entered with.
C3_Witness ==
  /\ pc = "matched"
  /\ call.m.op = "and"
  /\ call.out.node = 0
  /\ Matches(tree, call.m.pattern1, call.node, call.env)
  /\ Matches(tree, call.m.pattern2, call.node, call.env)

\* C4: Not(M).match_node(n) succeeds iff M.match_node(n) fails; the only
\* call the negation makes is M on n itself; on success it returns n; of
\* M and Not(M), on the same node and environment, exactly one succeeds.
C4_NotMatches ==
  (pc = "matched" /\ call.m.op = "not") =>
    LET r == match_node(tree, call.m.not, call.node, call.env)
    IN /\ (call.out.node # 0) <=> (r.node = 0)
       /\ call.out.node \in {0, call.node}
       /\ call.out.log = <<Entry(call.m, call.node)>> \o r.log
       /\ call.out.log[2] = Entry(call.m.not, call.node)

\* A negation that succeeds on a node although the negated matcher
\* matches a child of the node and its parent.
C4_Witness ==
  /\ pc = "matched"
  /\ call.m.op = "not"
  /\ call.out.node = call.node
  /\ tree[call.node] # 0
  /\ Matches(tree, call.m.not, tree[call.node], call.env)
  /\ \E c \in Nodes : tree[c] = call.node /\ Matches(tree, call.m.not, c, call.env)

\* The environment in which the i-th ancestor of the chain is tested: the
\* one the tests of the nearer ancestors left.
RECURSIVE EnvBefore(_, _, _, _, _)
EnvBefore(t, p, chain, i, env) ==
  IF i = 1 THEN env
  ELSE match_node(t, p, chain[i - 1], EnvBefore(t, p, chain, i - 1, env)).env

SomeAncestorMatches(t, p, n, env) ==
  LET chain == AncestorChain(t, n)
  IN \E i \in 1..Len(chain) : Matches(t, p, chain[i], EnvBefore(t, p, chain, i, env))

\* C5: Inside(M) matches N iff some element of N's ancestor chain matches
\* M, NotInside(M) matches N iff none does, and from the same node and
\* environment exactly one of Inside(M) and NotInside(M) succeeds.
C5_InsideComplement ==
  (pc = "matched" /\ call.m.op \in {"inside", "notinside"}) =>
    LET some == SomeAncestorMatches(tree, call.m.outer, call.node, call.env)
    IN /\ call.m.op = "inside" => ((call.out.node # 0) <=> some)
       /\ call.m.op = "notinside" => ((call.out.node # 0) <=> ~some)
       /\ Matches(tree, Inside(call.m.outer), call.node, call.env)
            # Matches(tree, NotInside(call.m.outer), call.node, call.env)
       /\ call.out.node \in {0, call.node}

\* Inside succeeds where the parent does not match and the grandparent
\* does.
C5_Witness ==
  /\ pc = "matched"
  /\ call.m.op = "inside"
  /\ call.out.node # 0
  /\ Len(AncestorChain(tree, call.node)) >= 2
  /\ ~Matches(tree, call.m.outer, tree[call.node], call.env)

\* NotInside fails on the same ground.
C5_WitnessNot ==
  /\ pc = "matched"
  /\ call.m.op = "notinside"
  /\ call.out.node = 0
  /\ ~Matches(tree, call.m.outer, tree[call.node], call.env)

\* A matcher with a positive anchor: following pattern1 through the
\* conjunctions ends at a pattern or at a disjunction whose operands have
\* a positive anchor themselves.
RECURSIVE Anchored(_)
Anchored(m) ==
  CASE m.op = "pattern" -> TRUE
    [] m.op = "and" -> Anchored(m.pattern1)
    [] m.op = "or" -> Anchored(m.pattern1) /\ Anchored(m.pattern2)
    [] OTHER -> FALSE

\* C6: build is not available on a value that is a negation alone, and a
\* matcher that build returns, as the one a Rule holds, has a positive
\* anchor: never a Not, an Inside or a NotInside at the end of the
\* pattern1 path.
C6_BuiltIsAnchored ==
  /\ ENABLED RuleBuild => (acc.inner.op \in {"and", "or"} /\ Anchored(acc.inner))
  /\ acc.ty = "Rule" => Anchored(acc.inner)
  /\ arg.from = "build" => Anchored(arg.m)
  /\ arg.from = "not" => (arg.m.op = "not" /\ acc.inner # arg.m)

\* A negation alone is at hand and build cannot be called, and later a
\* built rule holds a negation as its second operand.
C6_Witness ==
  /\ arg.from = "build"
  /\ arg.m.op = "and"
  /\ arg.m.pattern2.op = "not"

\* C7 as stated: a builder in And-chain or Or-chain state can finalize,
\* also while it holds only the matcher it was started with.
C7_StartCanBuild ==
  (pc = "idle" /\ acc.ty \in {"AndRule", "EitherRule", "Rule"}) => ENABLED RuleBuild

\* C7, amended: build is available on a Rule, the builder after at least
\* one and/or, and not on the AndRule or EitherRule that Rule::all and
\* Rule::either return; a built rule has two terms or more.
C7_BuildNeedsAChain ==
  /\ (pc = "idle" /\ acc.ty = "Rule") => ENABLED RuleBuild
  /\ acc.ty \in {"AndRule", "EitherRule"} => (~ENABLED RuleBuild /\ Len(acc.terms) = 1)
  /\ arg.from = "build" => (Len(arg.terms) >= 2 /\ arg.m.op \in {"and", "or"})

\* A rule was built from a chain of one and, and one of one or.
C7_Witness ==
  /\ arg.from = "build"
  /\ Len(arg.terms) = 2
  /\ acc.ty = "none"

\* The left-nested composition of the terms ts by op.
RECURSIVE FoldLeft(_, _)
FoldLeft(op, ts) ==
  IF Len(ts) = 1 THEN ts[1]
  ELSE [op |-> op, pattern1 |-> FoldLeft(op, SubSeq(ts, 1, Len(ts) - 1)),
        pattern2 |-> ts[Len(ts)]]

\* The place of the first call on matcher m in a log, 0 if there is none.
FirstCall(log, m) ==
  IF \E i \in 1..Len(log) : log[i].m = m
  THEN CHOOSE i \in 1..Len(log) : log[i].m = m /\ \A j \in 1..(i - 1) : log[j].m # m
  ELSE 0

\* The matchers m is made of, m included.
RECURSIVE SubTerms(_)
SubTerms(m) ==
  {m} \cup
  CASE m.op \in {"and", "or"} -> SubTerms(m.pattern1) \cup SubTerms(m.pattern2)
    [] m.op = "not" -> SubTerms(m.not)
    [] m.op \in {"inside", "notinside"} -> SubTerms(m.outer)
    [] OTHER -> {}

\* C8: the matcher of a chain Rule::either(p0).or(p1)...or(pk) is
\* Or(...Or(p0,p1)...,pk) and the one of Rule::all(p0).and(m1)...and(mk) is
\* And(...And(p0,m1)...,mk); the built rule matches with the same result,
\* environment and calls as the composition, and a term that does not
\* occur in an earlier term is called only after the terms added before it.
C8_ChainIsLeftFold ==
  /\ acc.ty = "Rule" => acc.inner = FoldLeft(acc.inner.op, acc.terms)
  /\ arg.from = "build" => arg.m = FoldLeft(arg.m.op, arg.terms)
  /\ (pc = "matched" /\ arg.from = "build") =>
       /\ call.out = match_node(tree, FoldLeft(arg.m.op, arg.terms), call.node, call.env)
       /\ \A i, j \in 1..Len(arg.terms) :
            (/\ i < j
             /\ \A k \in 1..(j - 1) : arg.terms[j] \notin SubTerms(arg.terms[k])
             /\ FirstCall(call.out.log, arg.terms[j]) # 0) =>
               /\ FirstCall(call.out.log, arg.terms[i]) # 0
               /\ FirstCall(call.out.log, arg.terms[i]) <= FirstCall(call.out.log, arg.terms[j])

\* A built chain of three different terms matched a node.
C8_Witness ==
  /\ pc = "matched"
  /\ arg.from = "build"
  /\ Len(arg.terms) = 3
  /\ arg.terms[1] # arg.terms[2]
  /\ arg.terms[2] # arg.terms[3]
  /\ call.out.node # 0

\* C9: find_node tests the nodes of the subtree in pre-order, starting
\* with the given node and the given environment, and stops at the first
\* success: every test but the last failed, the result is the node of the
\* last test if that succeeded, and the result is empty iff every node of
\* the subtree was tested and failed.
C9_FirstInPreOrder ==
  pc = "found" =>
    LET pre == PreOrder(tree, found.node)
        log == found.out.log
        n == Len(log)
    IN /\ n >= 1 /\ n <= Len(pre)
       /\ \A i \in 1..n : log[i].node = pre[i]
       /\ \A i \in 1..n : log[i].res = match_node(tree, found.m, log[i].node, log[i].env).node
       /\ log[1].env = found.env
       /\ \A i \in 1..(n - 1) : log[i].res = 0
       /\ found.out.node = log[n].res
       /\ found.out.node # 0 => found.out.node = pre[n]
       /\ found.out.node = 0 <=> (n = Len(pre) /\ \A i \in 1..n : log[i].res = 0)

\* A search that found its node after failed tests and before the end of
\* the subtree, on a tree whose pre-order is not its level order.
C9_Witness ==
  /\ pc = "found"
  /\ found.out.node # 0
  /\ Len(found.out.log) >= 3
  /\ Len(found.out.log) < Len(PreOrder(tree, found.node))
  /\ PreOrder(tree, found.node) # LevelOrder(tree, found.node)

Plain(m) == m.op \in {"not", "inside", "notinside"}

\* No Not over a plain matcher and no Or with a plain operand in m.
RECURSIVE NoPlainOperand(_)
NoPlainOperand(m) ==
  CASE m.op = "not" -> ~Plain(m.not) /\ NoPlainOperand(m.not)
    [] m.op = "or" -> /\ ~Plain(m.pattern1) /\ ~Plain(m.pattern2)
                      /\ NoPlainOperand(m.pattern1) /\ NoPlainOperand(m.pattern2)
    [] m.op = "and" -> NoPlainOperand(m.pattern1) /\ NoPlainOperand(m.pattern2)
    [] OTHER -> TRUE

\* C10: no value made by the builder holds a Not whose child is a Not, an
\* Inside or a NotInside, or an Or one of whose operands is.
C10_NoPlainNegatedOrOred ==
  /\ NoPlainOperand(acc.inner)
  /\ NoPlainOperand(arg.m)

\* A negation is at hand while an Or chain, which cannot take it, is in
\* flight.
C10_Witness ==
  /\ arg.from = "not"
  /\ acc.ty = "Rule"
  /\ acc.inner.op = "or"

\* C11: a second find_node_vec call with the same receiver on the same node
\* of the unchanged tree returns the same sequence, in the same order, as
\* the first: nothing the first call left behind reaches the second.
C11_SecondRunSame ==
  (pc = "returned" /\ prev.done) => ret = prev.ret

\* A second call that has returned, after a first one that reported
\* several nodes and whose candidates left bindings in their environments.
C11_Witness ==
  /\ pc = "returned"
  /\ prev.done
  /\ Len(prev.ret) >= 2
  /\ Len(ret) < Len(tested)
  /\ call.out.env # MetaVarEnvNew

\* C12: in find_node_vec the match_node call on a candidate is entered with
\* a new, empty environment, so it sees no binding written while another
\* candidate was tested; a dequeued node is in the result exactly if the
\* matcher succeeds on it from an empty environment, whatever was tested
\* before it.
C12_FreshEnvPerCandidate ==
  (pc \in {"loop", "returned"} /\ tested # <<>>) =>
    /\ call.node = tested[Len(tested)]
    /\ call.env = MetaVarEnvNew
    /\ call.out = match_node(tree, call.m, call.node, MetaVarEnvNew)
    /\ \A i \in 1..Len(tested) :
         (\E j \in 1..Len(ret) : ret[j] = tested[i])
           <=> Matches(tree, call.m, tested[i], MetaVarEnvNew)

\* The candidate just tested was reported, and would not have been had it
\* been handed the environment the candidate before it left behind.
C12_Witness ==
  /\ pc = "loop"
  /\ Len(tested) >= 2
  /\ call.out.node # 0
  /\ LET before == match_node(tree, call.m, tested[Len(tested) - 1], MetaVarEnvNew)
     IN /\ before.env # MetaVarEnvNew
        /\ ~Matches(tree, call.m, call.node, before.env)

\* C13: find_node uses one environment for the whole search and never
\* resets it: the first candidate is tested with the environment the search
\* was called with, every later candidate with the environment exactly as
\* the test before it in pre-order left it, failed or not, and the search
\* leaves to its caller what the last test left.
C13_OneEnvForTheSearch ==
  pc = "found" =>
    LET log == found.out.log
        order == PreOrder(tree, found.node)
    IN /\ log # <<>>
       /\ log[1].env = found.env
       /\ found.out.env = log[Len(log)].after
       /\ \A i \in 1..Len(log) :
            /\ log[i].node = order[i]
            /\ log[i].after = match_node(tree, found.m, log[i].node, log[i].env).env
            /\ i > 1 => log[i].env = log[i - 1].after

\* A failed test wrote a binding, and a candidate after it failed that
\* would have matched in the environment the search was called with.
C13_Witness ==
  /\ pc = "found"
  /\ \E i, j \in 1..Len(found.out.log) :
       /\ i < j
       /\ found.out.log[i].res = 0
       /\ found.out.log[i].after # found.out.log[i].env
       /\ found.out.log[j].res = 0
       /\ Matches(tree, found.m, found.out.log[j].node, found.env)

\* The nodes of the subtree of n: n and the nodes that have n among their
\* ancestors.
Subtree(t, n) ==
  {k \in Nodes : k = n \/ \E i \in 1..Len(AncestorChain(t, k)) : AncestorChain(t, k)[i] = n}

\* C14: on every tree find_node_vec terminates after a complete traversal:
\* a step taken in the loop is either one more turn, which tests one more
\* candidate, or the return, taken with the queue empty; the candidates
\* tested and those queued never outnumber the nodes of the start node's
\* subtree, so the loop takes no more turns than the subtree has nodes;
\* and when the call returns the queue is empty and every node of the
\* subtree, and no other, was dequeued and tested exactly once, whether or
\* not matches were found on the way.
C14_TerminatesComplete ==
  /\ [](pc = "loop" =>
         /\ Len(tested) + Len(queue) <= Cardinality(Subtree(tree, start))
         /\ queue = <<>> => Len(tested) = Cardinality(Subtree(tree, start)))
  /\ [](pc = "returned" =>
         /\ queue = <<>>
         /\ Len(tested) = Cardinality(Subtree(tree, start))
         /\ \A n \in Subtree(tree, start) : \E i \in 1..Len(tested) : tested[i] = n)
  /\ [][pc = "loop" =>
          \/ pc' = "loop" /\ queue # <<>> /\ tested' = Append(tested, Head(queue))
          \/ pc' = "returned" /\ queue = <<>> /\ tested' = tested /\ ret' = ret]_vars

\* A call that returned after it went through a subtree of several nodes
\* and found its first match before the last of them.
C14_Witness ==
  /\ pc = "returned"
  /\ Len(tested) >= 3
  /\ ret # <<>>
  /\ ret[1] # tested[Len(tested)]
  /\ ret[1] # tested[Len(tested) - 1]

\* C15: in Or(P1, P2), when P1 fails on the node, the call returns what P2
\* gives on that same node from the environment Or was entered with: P2
\* sees no binding written during P1's failed attempt.
C15_OrSecondSeesEntryEnv ==
  (pc = "matched" /\ call.m.op = "or") =>
    LET r1 == match_node(tree, call.m.pattern1, call.node, call.env)
        r2 == match_node(tree, call.m.pattern2, call.node, call.env)
    IN r1.node = 0 => (call.out.node = r2.node /\ call.out.env = r2.env)

\* C16: Inside and NotInside test the ancestors of the candidate one by
\* one from the parent upward, each in the environment the test before it
\* left, and stop at the first that matches, testing none above it.  At
\* that ancestor Inside returns the candidate itself, not the ancestor, and
\* NotInside returns nothing; the environment is left as the outer match on
\* that ancestor left it.  When no ancestor matches the whole chain was
\* tested.
C16_StopsAtNearest ==
  (pc = "matched" /\ call.m.op \in {"inside", "notinside"}) =>
    LET chain == AncestorChain(tree, call.node)
        outer == call.m.outer
        log == call.out.log
        k == Len(log) - 1
        last == match_node(tree, outer, chain[k], EnvBefore(tree, outer, chain, k, call.env))
    IN /\ k <= Len(chain)
       /\ \A i \in 1..k : log[i + 1] = Entry(outer, chain[i])
       /\ \A i \in 1..(k - 1) :
            ~Matches(tree, outer, chain[i], EnvBefore(tree, outer, chain, i, call.env))
       /\ k >= 1 => call.out.env = last.env
       /\ (k >= 1 /\ last.node # 0)
            => call.out.node = (IF call.m.op = "inside" THEN call.node ELSE 0)
       /\ (k = 0 \/ last.node = 0)
            => /\ k = Len(chain)
               /\ call.out.node = (IF call.m.op = "inside" THEN 0 ELSE call.node)

\* Inside succeeded at an ancestor below the root, in an environment the
\* outer match on it changed, while an ancestor farther up, left untested,
\* matches from the environment of the call as well.
C16_Witness ==
  /\ pc = "matched"
  /\ call.m.op = "inside"
  /\ call.out.node = call.node
  /\ call.out.env # call.env
  /\ LET chain == AncestorChain(tree, call.node)
         k == Len(call.out.log) - 1
     IN /\ k < Len(chain)
        /\ \E j \in (k + 1)..Len(chain) : Matches(tree, call.m.outer, chain[j], call.env)

\* NotInside gave up at the parent although the root above it was left
\* untested.
C16_WitnessNot ==
  /\ pc = "matched"
  /\ call.m.op = "notinside"
  /\ call.out.node = 0
  /\ Len(call.out.log) - 1 < Len(AncestorChain(tree, call.node))

\* C17: Inside and NotInside test strict ancestors only, never the
\* candidate itself: a candidate that matches the outer pattern itself but
\* has no matching ancestor fails Inside and passes NotInside, and on the
\* root Inside fails and NotInside succeeds with no outer test made and the
\* environment as it was.
C17_StrictAncestorsOnly ==
  (pc = "matched" /\ call.m.op \in {"inside", "notinside"}) =>
    LET chain == AncestorChain(tree, call.node)
        log == call.out.log
        absent == IF call.m.op = "inside" THEN 0 ELSE call.node
    IN /\ log[1] = Entry(call.m, call.node)
       /\ \A i \in 2..Len(log) :
            /\ log[i].node # call.node
            /\ \E j \in 1..Len(chain) : chain[j] = log[i].node
       /\ ~SomeAncestorMatches(tree, call.m.outer, call.node, call.env)
            => call.out.node = absent
       /\ parent(tree, call.node) = 0
            => /\ Len(log) = 1
               /\ call.out.env = call.env
               /\ call.out.node = absent

\* Below the root: the candidate matches the outer pattern itself, no
\* ancestor does, and Inside fails.
C17_Witness ==
  /\ pc = "matched"
  /\ call.m.op = "inside"
  /\ parent(tree, call.node) # 0
  /\ Matches(tree, call.m.outer, call.node, call.env)
  /\ call.out.node = 0

\* On the root, which matches the outer pattern itself: NotInside
\* succeeds.
C17_WitnessRoot ==
  /\ pc = "matched"
  /\ call.m.op = "notinside"
  /\ parent(tree, call.node) = 0
  /\ Matches(tree, call.m.outer, call.node, call.env)
  /\ call.out.node = call.node

\* The outcome of m on the nodes of the subtree of n does not depend on
\* what the environment holds.
EnvIndependent(t, m, n) ==
  \A k \in Subtree(t, n), e \in Envs \ {MetaVarEnvNew} :
    match_node(t, m, k, e).node = match_node(t, m, k, MetaVarEnvNew).node

\* C18: for a matcher whose outcome on a node does not depend on the
\* environment, find_node from an empty environment returns a node iff
\* find_node_vec on the same node returns a non-empty sequence, and the
\* node it returns is the member of that sequence that comes first in
\* pre-order.  Stated as: where the two searches do not agree in this way,
\* the outcome of the matcher on some node of the subtree depends on the
\* environment.
C18_SearchesAgree ==
  pc = "returned" =>
    LET f == find_node(tree, call.m, start, MetaVarEnvNew)
        hits == SelectSeq(PreOrder(tree, start),
                          LAMBDA n : \E j \in 1..Len(ret) : ret[j] = n)
        agree == /\ (f.node # 0) <=> (ret # <<>>)
                 /\ ret # <<>> => f.node = hits[1]
    IN ~agree => ~EnvIndependent(tree, call.m, start)

\* find_node_vec has returned several nodes for such a matcher, and the
\* one find_node returns is not the first of them.
C18_Witness ==
  /\ pc = "returned"
  /\ EnvIndependent(tree, call.m, start)
  /\ Len(ret) >= 2
  /\ find_node(tree, call.m, start, MetaVarEnvNew).node # ret[1]

\* C19: while find_node_vec is in its loop the queue is in breadth-first
\* shape: the depths of the queued nodes do not decrease from front to back
\* and differ by at most one, every queued node is a node of the start
\* node's subtree that has not been tested yet, and no node is in the queue
\* twice or again after it was taken off.
C19_QueueIsBreadthFirst ==
  pc = "loop" =>
    LET all == tested \o queue
    IN /\ \A i, j \in 1..Len(queue) :
            /\ i < j => Depth(tree, queue[i]) <= Depth(tree, queue[j])
            /\ Depth(tree, queue[j]) - Depth(tree, queue[i]) <= 1
       /\ \A i \in 1..Len(queue) :
            /\ queue[i] \in Subtree(tree, start)
            /\ \A j \in 1..Len(tested) : tested[j] # queue[i]
       /\ \A i, j \in 1..Len(all) : i < j => all[i] # all[j]

\* In the middle of a search: nodes of two depths are queued, behind
\* nodes already tested.
C19_Witness ==
  /\ pc = "loop"
  /\ Len(tested) >= 2
  /\ Len(queue) >= 2
  /\ Depth(tree, queue[1]) < Depth(tree, queue[Len(queue)])

====
